---- MODULE Spec2Model ----
(***************************************************************************)
(* wcp ("web copy"): one invocation of do_copy(source, destination) of     *)
(* src/main.rs, as a state machine.  The file system, the HTTP server and  *)
(* the streams are modelled by what File, HttpBody and OutgoingRequest do  *)
(* when the code calls them; every call that can fail may fail.            *)
(***************************************************************************)
EXTENDS Integers, Sequences, FiniteSets, TLC

\* ------------------------------------------------------------------------
\* Bounds and constants
\* ------------------------------------------------------------------------

\* main.rs:241 is 8 * 1024; the model keeps the code's use of it (the upper
\* limit of one read) and scales the number down so that lengths 0,
\* DEFAULT_BUF_SIZE and DEFAULT_BUF_SIZE + 1 are all inside MaxLen.
DEFAULT_BUF_SIZE == 2

\* longest source byte sequence
MaxLen == 3

\* how many times the sink's write() may answer ErrorKind::Interrupted
MaxInterrupts == 1

\* name() without a value: file_name() answered None
None == "None"

\* Option<u64>: None is the empty sequence, Some(n) the sequence of n
NoneU64 == <<>>

Some(n) == <<n>>

\* io::Result: Ok(n) and Err(kind)
Ok(n) == <<"Ok", n>>

Err(kind) == <<"Err", kind>>

Min(a, b) == IF a < b THEN a ELSE b

Last(s) == s[Len(s)]

\* The source's bytes: n distinct values, so that a skipped, repeated or
\* reordered byte shows (the code never looks at a byte's value).
Data(n) == [i \in 1..n |-> i % 256]

\* what a destination file that exists before the copy holds
OldContent == <<255>>

\* ------------------------------------------------------------------------
\* Location (main.rs:35-88)
\* ------------------------------------------------------------------------

\* Url::from_str of the http_io crate, as the tests at main.rs:90-124 use
\* it, on the text after scheme://host: a sequence of "/" separators and
\* component names.  The components are the names, trailing_slash says
\* whether the text ends in a separator.
ParseUrl(text) ==
    [kind |-> "Remote",
     components |-> SelectSeq(text, LAMBDA t : t # "/"),
     trailing_slash |-> Len(text) > 0 /\ Last(text) = "/"]

\* Location::Local(PathBuf): an absolute path as its sequence of components
LocalPath(components) ==
    [kind |-> "Local", components |-> components, trailing_slash |-> FALSE]

\* the path texts of the remote addresses of the model: scheme://host,
\* scheme://host/, /a, /a/, /a/b, /index.html
UrlTexts ==
    { <<>>, <<"/">>, <<"/", "a">>, <<"/", "a", "/">>,
      <<"/", "a", "/", "b">>, <<"/", "index.html">> }

RemoteLocations == { ParseUrl(t) : t \in UrlTexts }

\* the directories of the file system: / and /d
Dirs == { <<>>, <<"d">> }

\* the local addresses of the model: /, /d, /f (a file), /g (nothing there)
LocalLocations == { LocalPath(p) : p \in { <<>>, <<"d">>, <<"f">>, <<"g">> } }

Locations == LocalLocations \cup RemoteLocations

\* Location::is_dir.  Local: Path::is_dir asks the file system.
is_dir_no_empty(l) ==
    IF l.kind = "Local" THEN l.components \in Dirs ELSE l.trailing_slash

is_dir(l) ==
    IF l.kind = "Local"
    THEN l.components \in Dirs
    ELSE l.trailing_slash \/ Len(l.components) = 0

\* Location::push.  What Path::push of http_io does to trailing_slash is
\* not in this repository: the caller passes the flag it ends with.
push(l, component, ts) ==
    [l EXCEPT !.components = Append(@, component),
              !.trailing_slash = IF l.kind = "Local" THEN FALSE ELSE ts]

\* Path::file_name: None for a path with no final component (the root)
file_name(p) == IF Len(p) = 0 THEN None ELSE Last(p)

name_last_always(l) ==
    IF l.kind = "Local"
    THEN file_name(l.components)
    ELSE IF Len(l.components) = 0 THEN "index.html" ELSE Last(l.components)

\* Location::name.  Local: file_name().unwrap() panics on None, which the
\* model returns as None.  Remote: the last component unless the path has a
\* trailing slash or no component, then "index.html".
name(l) ==
    IF l.kind = "Local"
    THEN file_name(l.components)
    ELSE IF l.trailing_slash \/ Len(l.components) = 0
         THEN "index.html"
         ELSE Last(l.components)

\* ------------------------------------------------------------------------
\* State
\* ------------------------------------------------------------------------

VARIABLES
    pc,           \* where the invocation is: "resolve", "open_source",
                  \* "open_sink", "progress", "read", "write", "finish",
                  \* "done", "failed"
    source,       \* do_copy's source: Location
    destination,  \* do_copy's destination: mut Location
    files,        \* the file system's regular files: path -> bytes
    body,         \* the body the HTTP server answers a GET with
    src_stream,   \* source_stream: [kind: None | File | Dir | Http, pos]
    progress,     \* the ProgressBar: [kind, length, pos]
    buf,          \* io_copy_with_progress's buf
    pending,      \* the part of buf[..len] write_all has still to write
    len,          \* the length the last read returned
    written,      \* io_copy_with_progress's written
    received,     \* the bytes destination_stream has accepted
    returned,     \* the Ok value of io_copy_with_progress: <<>>, then <<n>>
    result,       \* do_copy's outcome: None, "Ok", "Io", "Http", "Panic"
    failedAt,     \* the call that failed, None if none did
    held,         \* the contexts and streams do_io_copy holds
    interrupts,   \* write() calls answered with Interrupted so far
    ioErrors,     \* the errors read and write calls answered, in order
    callsAfterErr,\* read and write calls issued after the first of them
    finishCalls,  \* calls of stream_finish
    opened,       \* the calls of open_for_read / open_for_write:
                  \* <<side, Location>>
    printed,      \* the lines println! wrote: <<source text, destination text>>
    source0,      \* source as do_copy received it
    destination0, \* destination as do_copy received it
    files0,       \* the files when do_copy was called
    destIsDir,    \* what the calls of destination.is_dir() answered
    named,        \* what the calls of source.name() answered
    sizes,        \* what the calls of source_stream.stream_size() answered
    usedContext   \* the context each open call was given: <<context, side>>

vars ==
    << pc, source, destination, files, body, src_stream, progress, buf,
       pending, len,
       written, received, returned, result, failedAt, held, interrupts,
       ioErrors, callsAfterErr, finishCalls, opened, printed, source0,
       destination0, files0, destIsDir, named, sizes, usedContext >>

\* the states of one invocation, by the names of the design's state machine
Phase(p) ==
    CASE p = "resolve" -> "Resolving"
      [] p = "open_source" -> "Opening(Source)"
      [] p = "open_sink" -> "Opening(Sink)"
      [] p \in {"progress", "read", "write"} -> "Transferring"
      [] p = "finish" -> "Finalizing"
      [] p = "done" -> "Done"
      [] p = "failed" -> "Failed"

NoStream == [kind |-> None, pos |-> 0]

NoProgress == [kind |-> None, length |-> NoneU64, pos |-> 0]

InitFiles(n) ==
    [p \in { <<"f">>, <<"d", "f">> } |->
        IF p = <<"f">> THEN Data(n) ELSE OldContent]

Init ==
    /\ pc = "resolve"
    /\ source \in Locations
    /\ destination \in Locations
    /\ source0 = source
    /\ destination0 = destination
    /\ \E n \in 0..MaxLen :
          /\ files = InitFiles(n)
          /\ body = Data(n)
    /\ files0 = files
    /\ src_stream = NoStream
    /\ progress = NoProgress
    /\ buf = [i \in 1..DEFAULT_BUF_SIZE |-> 0]
    /\ pending = <<>>
    /\ len = 0
    /\ written = 0
    /\ received = <<>>
    /\ returned = <<>>
    /\ result = None
    /\ failedAt = None
    /\ held = {}
    /\ interrupts = 0
    /\ ioErrors = <<>>
    /\ callsAfterErr = 0
    /\ finishCalls = 0
    /\ opened = <<>>
    /\ printed = <<>>
    /\ destIsDir = <<>>
    /\ named = <<>>
    /\ sizes = <<>>
    /\ usedContext = <<>>

\* ------------------------------------------------------------------------
\* The order of do_copy and do_io_copy (main.rs:266-309)
\* ------------------------------------------------------------------------

next_step_sink_first(p) ==
    CASE p = "resolve" -> "open_sink"
      [] p = "open_sink" -> "open_source"
      [] p = "open_source" -> "progress"
      [] p = "progress" -> "read"

\* the statement that follows p when p succeeds: do_copy resolves and
\* calls do_io_copy, which opens the source (274), opens the sink (275),
\* makes the progress bar (277-285) and enters the loop (287)
next_step(p) ==
    CASE p = "resolve" -> "open_source"
      [] p = "open_source" -> "open_sink"
      [] p = "open_sink" -> "progress"
      [] p = "progress" -> "read"

\* ------------------------------------------------------------------------
\* Errors (main.rs:15-33)
\* ------------------------------------------------------------------------

error_by_endpoint(call, kind) == IF kind = "Remote" THEN "Http" ELSE "Io"

\* The Error a failed call becomes through `?` and the two From impls.
\* open_for_read, open_for_write and stream_finish return this crate's
\* Result: an http_io error on a Url, an io::Error on a PathBuf.  read and
\* write_all are io::Read / io::Write calls inside io_copy_with_progress,
\* which returns io::Result: their error is an io::Error on either kind.
error_of(call, kind) ==
    IF call \in {"read", "write"}
    THEN "Io"
    ELSE IF kind = "Remote" THEN "Http" ELSE "Io"

\* the kind of the Location the failed call was made on
SideKind(call) ==
    IF call \in {"open_source", "read"} THEN source.kind ELSE destination.kind

Fail_holding(call) ==
    /\ pc' = "failed"
    /\ result' = error_of(call, SideKind(call))
    /\ failedAt' = call
    /\ held' = held \ {"source_stream"}

\* A call returned Err and `?` returns it from do_io_copy and do_copy: the
\* contexts and streams are dropped on the way out.
Fail(call) ==
    /\ pc' = "failed"
    /\ result' = error_of(call, SideKind(call))
    /\ failedAt' = call
    /\ held' = {}

\* ------------------------------------------------------------------------
\* do_copy (main.rs:294-309): destination resolution and the report
\* ------------------------------------------------------------------------

resolve_always(dst, src, ts) == push(dst, name(src), ts)

\* main.rs:295-297: the destination do_copy goes on with
resolve(dst, src, ts) ==
    IF is_dir(dst) THEN push(dst, name(src), ts) ELSE dst

\* the values trailing_slash may have after Path::push
TrailingAfterPush(dst) ==
    IF dst.kind = "Remote" /\ is_dir(dst) THEN BOOLEAN ELSE {FALSE}

\* Display for Location (main.rs:41-48): the text of an address, as its
\* separators and names; a remote one begins with scheme://host
fmt(l) ==
    LET n == Len(l.components)
        path == [i \in 1..(2 * n) |->
                    IF i % 2 = 1 THEN "/" ELSE l.components[i \div 2]]
    IN  IF l.kind = "Local"
        THEN IF n = 0 THEN << "/" >> ELSE path
        ELSE << "scheme://host" >> \o path
                 \o (IF l.trailing_slash THEN << "/" >> ELSE <<>>)

report_as_given(src, dst) == << fmt(src), fmt(destination0) >>

\* main.rs:299: the line "copying {} to {}" of source and destination
report(src, dst) == << fmt(src), fmt(dst) >>

\* main.rs:295-299.  source.name() is evaluated only when the destination
\* is a directory; on a local source without a final component its unwrap
\* panics and do_copy unwinds before anything is printed or opened.
do_copy ==
    /\ pc = "resolve"
    /\ UNCHANGED << sizes, usedContext >>
    /\ destIsDir' = Append(destIsDir, is_dir(destination))
    /\ named' = IF is_dir(destination) THEN Append(named, name(source)) ELSE named
    /\ IF is_dir(destination) /\ name(source) = None
       THEN /\ pc' = "failed"
            /\ result' = "Panic"
            /\ failedAt' = "resolve"
            /\ UNCHANGED << destination, printed >>
       ELSE /\ \E ts \in TrailingAfterPush(destination) :
                  destination' = resolve(destination, source, ts)
            /\ printed' = Append(printed, report(source, destination'))
            /\ pc' = next_step("resolve")
            /\ UNCHANGED << result, failedAt >>
    /\ UNCHANGED << source, files, body, src_stream, progress, buf, pending,
                    len,
                    written, received, returned, held, interrupts, ioErrors,
                    callsAfterErr, finishCalls, opened, source0, destination0, files0 >>

\* ------------------------------------------------------------------------
\* CopySource / CopySink (main.rs:193-232)
\* ------------------------------------------------------------------------

\* What open_for_read can answer.  Url: the GET fails or yields the body.
\* PathBuf: File::open fails where nothing is, may fail where a file is
\* (permissions), and on a directory either fails or yields a handle that
\* cannot be read.
open_for_read(l, fs) ==
    IF l.kind = "Remote" THEN {"Err", "Http"}
    ELSE IF l.components \in DOMAIN fs THEN {"Err", "File"}
    ELSE IF l.components \in Dirs THEN {"Err", "Dir"}
    ELSE {"Err"}

Parent(p) == SubSeq(p, 1, Len(p) - 1)

\* What open_for_write can answer.  Url: the PUT fails or yields the
\* request.  PathBuf: File::create fails on a directory and under a parent
\* that is no directory, and may fail elsewhere.
open_for_write(l, fs) ==
    IF l.kind = "Remote" THEN {"Err", "Ok"}
    ELSE IF l.components \in Dirs \/ Parent(l.components) \notin Dirs THEN {"Err"}
    ELSE {"Err", "Ok"}

\* File::create: the file exists afterwards and is empty
create(fs, p) ==
    [q \in DOMAIN fs \cup {p} |-> IF q = p THEN <<>> ELSE fs[q]]

\* main.rs:271-274: both contexts are made, then the source is opened
OpenSource ==
    /\ pc = "open_source"
    /\ usedContext' = Append(usedContext, << "source_context", "source" >>)
    /\ UNCHANGED sizes
    /\ opened' = Append(opened, << "source", source >>)
    /\ \E r \in open_for_read(source, files) :
          IF r = "Err"
          THEN /\ Fail("open_source")
               /\ UNCHANGED src_stream
          ELSE /\ src_stream' = [kind |-> r, pos |-> 0]
               /\ held' = held \cup {"source_context", "destination_context",
                                      "source_stream"}
               /\ pc' = next_step("open_source")
               /\ UNCHANGED << result, failedAt >>
    /\ UNCHANGED << source, destination, files, body, progress, buf, pending,
                    len,
                    written, received, returned, interrupts, ioErrors,
                    callsAfterErr, finishCalls, printed, source0, destination0, files0,
                    destIsDir, named >>

\* main.rs:275
OpenSink ==
    /\ pc = "open_sink"
    /\ usedContext' = Append(usedContext, << "destination_context", "sink" >>)
    /\ UNCHANGED sizes
    /\ opened' = Append(opened, << "sink", destination >>)
    /\ \E r \in open_for_write(destination, files) :
          IF r = "Err"
          THEN /\ Fail("open_sink")
               /\ UNCHANGED files
          ELSE /\ files' = IF destination.kind = "Local"
                           THEN create(files, destination.components)
                           ELSE files
               /\ held' = held \cup {"destination_stream"}
               /\ pc' = next_step("open_sink")
               /\ UNCHANGED << result, failedAt >>
    /\ UNCHANGED << source, destination, body, src_stream, progress, buf, pending,
                    len,
                    written, received, returned, interrupts, ioErrors,
                    callsAfterErr, finishCalls, printed, source0, destination0, files0,
                    destIsDir, named >>

\* ------------------------------------------------------------------------
\* StreamSize and the progress bar (main.rs:180-184, 207-211, 277-285)
\* ------------------------------------------------------------------------

stream_size_at_start(st, l, fs, b) ==
    IF st.kind = "Http" THEN {NoneU64, Some(Len(b))}
    ELSE IF st.kind = "File" THEN {NoneU64, Some(Len(files0[l.components]))}
    ELSE {NoneU64} \cup { Some(n) : n \in 0..MaxLen }

\* What source_stream.stream_size() can answer.  HttpBody: content_length(),
\* the body's length when the response states it.  File: the length in the
\* metadata now, None when metadata() fails; a directory's is any number.
stream_size(st, l, fs, b) ==
    IF st.kind = "Http" THEN {NoneU64, Some(Len(b))}
    ELSE IF st.kind = "File" THEN {NoneU64, Some(Len(fs[l.components]))}
    ELSE {NoneU64} \cup { Some(n) : n \in 0..MaxLen }

new_progress_spinner(size) ==
    [kind |-> "spinner", length |-> NoneU64, pos |-> 0]

\* main.rs:277-280
new_progress(size) ==
    IF size = NoneU64
    THEN [kind |-> "spinner", length |-> NoneU64, pos |-> 0]
    ELSE [kind |-> "bar", length |-> size, pos |-> 0]

inc_one(pb, n) == [pb EXCEPT !.pos = @ + 1]

\* ProgressBar::inc
inc(pb, n) == [pb EXCEPT !.pos = @ + n]

\* main.rs:277-285
NewProgress ==
    /\ pc = "progress"
    /\ \E size \in stream_size(src_stream, source, files, body) :
          /\ progress' = new_progress(size)
          /\ sizes' = Append(sizes, size)
    /\ UNCHANGED usedContext
    /\ pc' = next_step("progress")
    /\ UNCHANGED << source, destination, files, body, src_stream, buf, pending,
                    len, written, received, returned, result, failedAt, held,
                    interrupts, ioErrors, callsAfterErr, finishCalls, opened,
                    printed, source0, destination0, files0, destIsDir, named >>

\* ------------------------------------------------------------------------
\* io_copy_with_progress (main.rs:243-264)
\* ------------------------------------------------------------------------

\* the bytes the source holds: the file as it is now, or the response body
SourceBytes ==
    IF src_stream.kind = "File" THEN files[source.components]
    ELSE IF src_stream.kind = "Http" THEN body
    ELSE <<>>

\* the bytes source_stream has not delivered yet
Remaining == SubSeq(SourceBytes, src_stream.pos + 1, Len(SourceBytes))

\* What reader.read(&mut buf) can answer: an error, 0 at the end of the
\* stream, else any number of bytes from 1 to the buffer's size that the
\* stream still has.  A directory handle answers every read with an error.
read(st, rem) ==
    {Err("Other")} \cup
    (IF st.kind = "Dir" THEN {}
     ELSE IF Len(rem) = 0 THEN {Ok(0)}
     ELSE { Ok(n) : n \in 1..Min(DEFAULT_BUF_SIZE, Len(rem)) })

fill_grow(b, rem, n) == SubSeq(rem, 1, n) \o b

\* buf after a read of n bytes: the first n bytes are the stream's next n
fill(b, rem, n) == [i \in 1..Len(b) |-> IF i <= n THEN rem[i] ELSE b[i]]

slice_whole(b, n) == b

\* &buf[..len]
slice(b, n) == SubSeq(b, 1, n)

\* What one writer.write(pending) inside write_all can answer: an error,
\* ErrorKind::Interrupted, or the number of bytes it took, 0 included.
write(p) ==
    {Err("Other")}
        \cup (IF interrupts < MaxInterrupts THEN {Err("Interrupted")} ELSE {})
        \cup { Ok(n) : n \in 0..Len(p) }

write_all_retries_any(e) == TRUE

\* Write::write_all goes on after an error of kind Interrupted and returns
\* every other error
write_all_retries(e) == e = "Interrupted"

write_all_done_after_one(p) == TRUE

\* write_all returns Ok when nothing of the chunk is left to write
write_all_done(p) == p = <<>>

finish_after_loop(r) == "finish"

\* main.rs:287: `?` on the loop's result: on Ok the sink is finished next
after_loop(r) == IF r = "Ok" THEN "finish" ELSE "failed"

\* main.rs:255-259: one reader.read
Read ==
    /\ pc = "read"
    /\ UNCHANGED << sizes, usedContext >>
    /\ callsAfterErr' = callsAfterErr + (IF ioErrors # <<>> THEN 1 ELSE 0)
    /\ \E r \in read(src_stream, Remaining) :
          IF r[1] = "Err"
          THEN /\ ioErrors' = Append(ioErrors, << "read", r[2] >>)
               /\ pc' = after_loop("Err")
               /\ IF pc' = "failed"
                  THEN Fail("read")
                  ELSE UNCHANGED << result, failedAt, held >>
               /\ UNCHANGED << src_stream, buf, pending, len, returned >>
          ELSE IF r[2] = 0
          THEN /\ returned' = Some(written)
               /\ pc' = after_loop("Ok")
               /\ UNCHANGED << src_stream, buf, pending, len, result,
                               failedAt, held, ioErrors >>
          ELSE /\ buf' = fill(buf, Remaining, r[2])
               /\ len' = r[2]
               /\ pending' = slice(buf', r[2])
               /\ src_stream' = [src_stream EXCEPT !.pos = @ + r[2]]
               /\ pc' = "write"
               /\ UNCHANGED << returned, result, failedAt, held, ioErrors >>
    /\ UNCHANGED << source, destination, files, body, progress, written,
                    received, interrupts, finishCalls, opened, printed,
                    source0, destination0, files0, destIsDir, named >>

Take_first(t) ==
    /\ received' = t \o received
    /\ files' = IF destination.kind = "Local"
                THEN [files EXCEPT ![destination.components] = t \o @]
                ELSE files

\* the sink took the bytes t: a file grows by them, a request sends them
Take(t) ==
    /\ received' = received \o t
    /\ files' = IF destination.kind = "Local"
                THEN [files EXCEPT ![destination.components] = @ \o t]
                ELSE files

\* main.rs:260-262: one writer.write of write_all; when nothing is pending
\* afterwards write_all returns Ok and written and progress are advanced
Write ==
    /\ pc = "write"
    /\ UNCHANGED << sizes, usedContext >>
    /\ callsAfterErr' = callsAfterErr + (IF ioErrors # <<>> THEN 1 ELSE 0)
    /\ \E r \in write(pending) :
          IF r[1] = "Err"
          THEN /\ ioErrors' = Append(ioErrors, << "write", r[2] >>)
               /\ interrupts' = interrupts + (IF r[2] = "Interrupted" THEN 1 ELSE 0)
               /\ IF write_all_retries(r[2])
                  THEN UNCHANGED << pc, result, failedAt, held >>
                  ELSE /\ pc' = after_loop("Err")
                       /\ IF pc' = "failed"
                          THEN Fail("write")
                          ELSE UNCHANGED << result, failedAt, held >>
               /\ UNCHANGED << files, received, pending, written, progress,
                               returned >>
          ELSE IF r[2] = 0
          THEN \* Ok(0): write_all returns ErrorKind::WriteZero
               /\ ioErrors' = Append(ioErrors, << "write", "WriteZero" >>)
               /\ pc' = after_loop("Err")
               /\ IF pc' = "failed"
                  THEN Fail("write")
                  ELSE UNCHANGED << result, failedAt, held >>
               /\ UNCHANGED << files, received, pending, written, progress,
                               returned, interrupts >>
          ELSE /\ Take(SubSeq(pending, 1, r[2]))
               /\ pending' = SubSeq(pending, r[2] + 1, Len(pending))
               /\ IF write_all_done(pending')
                  THEN /\ written' = written + len
                       /\ progress' = inc(progress, len)
                       /\ pc' = "read"
                  ELSE UNCHANGED << written, progress, pc >>
               /\ UNCHANGED << result, failedAt, held, returned, interrupts,
                               ioErrors >>
    /\ UNCHANGED << source, destination, body, src_stream, buf, len,
                    finishCalls, opened, printed, source0, destination0, files0,
                    destIsDir, named >>

\* ------------------------------------------------------------------------
\* StreamFinish (main.rs:186-191, 213-218) and the end of do_io_copy
\* ------------------------------------------------------------------------

\* What stream_finish can answer: File::sync_all or OutgoingRequest::finish
\* fails or succeeds
stream_finish(l) == {"Err", "Ok"}

\* main.rs:289-291: the sink is consumed by stream_finish
Finish ==
    /\ pc = "finish"
    /\ UNCHANGED << sizes, usedContext >>
    /\ finishCalls' = finishCalls + 1
    /\ \E r \in stream_finish(destination) :
          IF r = "Err"
          THEN Fail("finish")
          ELSE /\ pc' = "done"
               /\ result' = "Ok"
               /\ held' = {}
               /\ UNCHANGED failedAt
    /\ UNCHANGED << source, destination, files, body, src_stream, progress,
                    buf, pending, len, written, received, returned,
                    interrupts, ioErrors, callsAfterErr, opened, printed,
                    source0, destination0, files0, destIsDir, named >>

Next ==
    \/ do_copy
    \/ OpenSource
    \/ OpenSink
    \/ NewProgress
    \/ Read
    \/ Write
    \/ Finish

Spec == Init /\ [][Next]_vars

\* The program is one thread of blocking calls: while a statement is left
\* to run and every call returns, the next statement runs.
SpecLive == Spec /\ WF_vars(Next)

\* ------------------------------------------------------------------------
\* Claims
\* ------------------------------------------------------------------------

\* the source and the resolved destination are the same local file
SameFile ==
    /\ source.kind = "Local"
    /\ destination.kind = "Local"
    /\ source.components = destination.components

\* the bytes the source endpoint held when do_copy was called
SourceBytes0 ==
    IF source0.kind = "Local" THEN files0[source0.components] ELSE body

\* C1: a copy that ends in success leaves the sink having received exactly
\* the byte sequence of the source stream, whatever its length and however
\* the reads and writes split it: the sink's bytes are the source's bytes
\* in order, a local destination file holds exactly them, and unless the
\* destination is the source file itself they are the bytes the source
\* held when the copy began.
C1_RoundTrip ==
    pc = "done" =>
        /\ received = SourceBytes
        /\ destination.kind = "Local" => files[destination.components] = received
        /\ ~SameFile => received = SourceBytes0

\* C1 happens: a source one byte longer than the buffer was copied whole
C1_Witness ==
    /\ pc = "done"
    /\ ~SameFile
    /\ Len(SourceBytes0) = DEFAULT_BUF_SIZE + 1
    /\ received = Data(DEFAULT_BUF_SIZE + 1)

\* resolution is over and did not panic in source.name()
Resolved == pc # "resolve" /\ result # "Panic"

\* C2: destination resolution appends the source's basename to the
\* destination exactly once if and only if destination.is_dir() answered
\* true at the start of the invocation, and otherwise leaves the destination
\* as it was; resolution never changes the source address; and the stream
\* opened for writing is opened on the resolved destination.
C2_DestinationResolution ==
    /\ source = source0
    /\ Resolved =>
        /\ Len(destIsDir) = 1
        /\ destination.kind = destination0.kind
        /\ IF destIsDir[1]
           THEN /\ named = << name(source0) >>
                /\ destination.components =
                       Append(destination0.components, named[1])
           ELSE /\ named = <<>>
                /\ destination = destination0
        /\ \A i \in DOMAIN opened :
              opened[i][1] = "sink" => opened[i][2] = destination

\* C2 happens: a directory destination got the basename and the sink was
\* opened there, and a plain destination was opened as given
C2_Witness ==
    /\ Resolved
    /\ destIsDir = << TRUE >>
    /\ source0 = LocalPath(<< "f" >>)
    /\ destination0 = LocalPath(<< "d" >>)
    /\ opened # <<>>
    /\ opened[Len(opened)] = << "sink", LocalPath(<< "d", "f" >>) >>

\* the steps the design's state machine allows: forward by one state,
\* inside Transferring, and from any state that is not terminal to Failed
AllowedEdges ==
    { << "Resolving", "Opening(Source)" >>,
      << "Opening(Source)", "Opening(Sink)" >>,
      << "Opening(Sink)", "Transferring" >>,
      << "Transferring", "Transferring" >>,
      << "Transferring", "Finalizing" >>,
      << "Finalizing", "Done" >> }
    \cup { << s, "Failed" >> :
             s \in { "Resolving", "Opening(Source)", "Opening(Sink)",
                     "Transferring", "Finalizing" } }

\* the sides opened so far, in the order of the calls
OpenedSides == [i \in DOMAIN opened |-> opened[i][1]]

\* C3: one invocation moves only along Resolving -> Opening(Source) ->
\* Opening(Sink) -> Transferring -> Finalizing -> Done, or from a state that
\* is not terminal to Failed; the source is opened before the sink, each
\* once; nothing is read or written before both streams are open; Done and
\* Failed are left by no step.
C3_StateMachine ==
    [][ /\ << Phase(pc), Phase(pc') >> \in AllowedEdges
        /\ OpenedSides' \in { <<>>, << "source" >>, << "source", "sink" >> }
        /\ (\/ src_stream'.pos > 0
            \/ received' # <<>>
            \/ Phase(pc') \in { "Transferring", "Finalizing", "Done" })
           => /\ OpenedSides' = << "source", "sink" >>
              /\ Phase(pc) \in { "Opening(Sink)", "Transferring", "Finalizing" }
      ]_vars

\* C3 happens: an invocation went through every state to Done
C3_Witness ==
    /\ pc = "done"
    /\ OpenedSides = << "source", "sink" >>
    /\ received # <<>>
    /\ finishCalls = 1

\* C3 also happens on the failing side: Failed was entered from the loop
C3_WitnessFailed == pc = "failed" /\ failedAt = "write" /\ received # <<>>

\* the errors of read and write calls that were not ErrorKind::Interrupted
FatalErrors == { i \in DOMAIN ioErrors : ioErrors[i][2] # "Interrupted" }

C5_Finalize ==
    /\ finishCalls <= 1
    /\ finishCalls = 1 =>
          /\ returned # <<>>
          /\ Remaining = <<>>
          /\ pending = <<>>
          /\ Len(received) = src_stream.pos
          /\ failedAt \in { None, "finish" }
    /\ failedAt \in { "resolve", "open_source", "open_sink", "read", "write" }
          => finishCalls = 0
    /\ pc \in { "finish", "done" } <=> (returned # <<>> /\ failedAt = None)
    /\ pc = "finish" => finishCalls = 0
    /\ (result = "Ok" \/ pc = "done") =>
          /\ finishCalls = 1
          /\ failedAt = None
          /\ result = "Ok"
          /\ pc = "done"
    /\ failedAt = "finish" =>
          /\ finishCalls = 1
          /\ pc = "failed"
          /\ result \in { "Io", "Http" }

\* C5 happens: a transfer that returned Ok was finished, and the finish
\* failed, so the copy failed
C5_Witness ==
    /\ finishCalls = 1
    /\ failedAt = "finish"
    /\ pc = "failed"
    /\ returned = Some(DEFAULT_BUF_SIZE + 1)

\* the transfer loop has returned: Ok, or the error of a read or a write
TransferEnded == returned # <<>> \/ failedAt \in { "read", "write" }

\* the bytes of the chunk in write_all that the sink has taken so far
InFlight ==
    IF pc = "write" \/ failedAt = "write" THEN len - Len(pending) ELSE 0

\* C6 as stated: when the transfer has ended, the sum of the progress
\* increments is the number of bytes written to the sink, and on success
\* the returned value is that number.
C6_AsStated ==
    TransferEnded =>
        /\ progress.pos = Len(received)
        /\ returned # <<>> => returned = Some(Len(received))

\* C6 amended: the sum of the progress increments is always the number of
\* bytes of the chunks write_all wrote whole (written).  When the transfer
\* succeeds or fails in a read this is the number of bytes the sink
\* received, and on success it is the value returned; when it fails in
\* write_all the sink may have received up to len - 1 bytes more, the part
\* of the failing chunk it took, which no increment counts.
C6_ProgressCountsWholeChunks ==
    /\ progress.pos = written
    /\ Len(received) = written + InFlight
    /\ TransferEnded =>
          /\ failedAt # "write" => progress.pos = Len(received)
          /\ failedAt = "write" =>
                /\ progress.pos = Len(received) - InFlight
                /\ InFlight \in 0..(len - 1)
          /\ returned # <<>> =>
                /\ returned = Some(Len(received))
                /\ returned = Some(progress.pos)

\* C6 happens: a transfer failed in write_all after one chunk was written
\* whole and the sink took part of the next
C6_Witness ==
    /\ failedAt = "write"
    /\ written >= 1
    /\ progress.pos = written
    /\ Len(received) > written

\* a successful transfer with its whole progress counted
C6_WitnessOk ==
    /\ pc = "done"
    /\ returned = Some(DEFAULT_BUF_SIZE + 1)
    /\ progress.pos = DEFAULT_BUF_SIZE + 1

\* C7 as stated: if the source stream reported a size when the progress bar
\* was made, the sum of the progress increments of the transfer is that
\* size.
C7_AsStated ==
    (TransferEnded /\ progress.kind = "bar") => progress.length = Some(progress.pos)

\* C7 amended: if the source stream reported a size when the progress bar
\* was made and the transfer succeeds, the sum of the progress increments
\* is that size (the stream delivering as many bytes as it reported); a
\* transfer that fails stops the sum at the bytes of the chunks written.
C7_KnownSizeOnSuccess ==
    /\ (returned # <<>> /\ progress.kind = "bar") =>
          /\ progress.length = Some(progress.pos)
          /\ progress.length = Some(Len(received))
    /\ (progress.kind = "bar" /\ src_stream.kind # "Dir") =>
          progress.pos <= progress.length[1]

\* C7 happens: a bar of known length ran to its end in several steps
C7_Witness ==
    /\ pc = "done"
    /\ progress.kind = "bar"
    /\ progress.length = Some(DEFAULT_BUF_SIZE + 1)
    /\ progress.pos = DEFAULT_BUF_SIZE + 1

\* the collaborator a failed call was made on: the HTTP client for a call
\* on a remote address or its stream, the file system for a local one
Origin == IF SideKind(failedAt) = "Remote" THEN "Http" ELSE "Io"

\* C8 as stated, for the failures that are an Err: the error is tagged by
\* where it began: Error::Http for a failure of the HTTP collaborator
\* (opening, reading, writing or finishing a remote stream), Error::Io for
\* a failure of local file access.
C8_AsStated ==
    (pc = "failed" /\ result # "Panic") =>
        /\ result \in { "Io", "Http" }
        /\ result = Origin

\* C8 amended: every Err do_copy returns is one of the two tagged errors,
\* chosen by the type of the error of the call that failed: Error::Http for
\* opening a remote source or sink and for finishing a remote sink,
\* Error::Io for opening or syncing a local file and for every read or write
\* error of the transfer loop, on a remote stream too (io::Read and
\* io::Write report io::Error).  The one failure that is no Err is the panic
\* of source.name() during resolution.
C8_ErrorTags ==
    /\ pc = "failed" <=> failedAt # None
    /\ pc = "failed" <=> result \in { "Io", "Http", "Panic" }
    /\ result = "Panic" <=> failedAt = "resolve"
    /\ result = "Http" <=>
          /\ failedAt \in { "open_source", "open_sink", "finish" }
          /\ SideKind(failedAt) = "Remote"
    /\ result = "Io" <=>
          \/ failedAt \in { "read", "write" }
          \/ /\ failedAt \in { "open_source", "open_sink", "finish" }
             /\ SideKind(failedAt) = "Local"

\* C8 happens: a read of a remote body failed and came out as Error::Io
C8_Witness ==
    /\ pc = "failed"
    /\ failedAt = "read"
    /\ source.kind = "Remote"
    /\ src_stream.pos > 0
    /\ result = "Io"

\* C8 happens at the finish too: a remote sink refused at finish
C8_WitnessHttp ==
    /\ pc = "failed"
    /\ failedAt = "finish"
    /\ destination.kind = "Remote"
    /\ result = "Http"

\* the text of a remote address ends in a separator
EndsInSeparator(text) == Len(text) > 0 /\ text[Len(text)] = "/"

\* the number of path components a text names
ComponentCount(text) == Cardinality({ i \in DOMAIN text : text[i] # "/" })

\* C9: for every remote address, is_dir() is true if and only if the path
\* ends in a separator or has no component: true for scheme://host,
\* scheme://host/ and scheme://host/a/, false for scheme://host/a/b.
C9_RemoteIsDir ==
    (pc # "resolve" /\ destination0.kind = "Remote") =>
        /\ Len(destIsDir) = 1
        /\ \A t \in UrlTexts :
              destination0 = ParseUrl(t) =>
                  (destIsDir[1] <=> (EndsInSeparator(t) \/ ComponentCount(t) = 0))
        /\ destination0 \in { ParseUrl(<<>>), ParseUrl(<< "/" >>),
                              ParseUrl(<< "/", "a", "/" >>) } => destIsDir[1]
        /\ destination0 = ParseUrl(<< "/", "a", "/", "b" >>) => ~destIsDir[1]

\* C9 happens: is_dir() answered true for scheme://host
C9_Witness ==
    /\ pc # "resolve"
    /\ destination0 = ParseUrl(<<>>)
    /\ destIsDir = << TRUE >>

\* C9 happens: is_dir() answered false for scheme://host/a/b
C9_WitnessFile ==
    /\ pc # "resolve"
    /\ destination0 = ParseUrl(<< "/", "a", "/", "b" >>)
    /\ destIsDir = << FALSE >>

C10_WitnessComponent ==
    /\ source0 = ParseUrl(<< "/", "a", "/", "b" >>)
    /\ named = << "b" >>
    /\ Resolved

\* s is the beginning of t
IsPrefix(s, t) == Len(s) <= Len(t) /\ s = SubSeq(t, 1, Len(s))

\* the sink stream is or was open
SinkOpened == \E i \in DOMAIN opened : opened[i][1] = "sink" /\ failedAt # "open_sink"

\* C11: no rollback.  In every state of a copy the bytes the sink has
\* received since it was opened are the beginning of the source's byte
\* sequence (of the bytes the source held when the copy began), and no more
\* than the source stream has delivered; a local destination file holds
\* exactly the bytes received, in Failed too: a failed copy leaves the
\* partial output as it is, neither truncated nor removed.
C11_NoRollback ==
    /\ src_stream.kind \in { "File", "Http" } =>
          /\ IsPrefix(received, SourceBytes0)
          /\ Len(received) <= src_stream.pos
    /\ src_stream.kind \notin { "File", "Http" } => received = <<>>
    /\ (SinkOpened /\ destination.kind = "Local") =>
          /\ destination.components \in DOMAIN files
          /\ files[destination.components] = received

\* C11 happens: a copy failed after the sink took part of the source, and
\* the destination file still holds that part
C11_Witness ==
    /\ pc = "failed"
    /\ failedAt \in { "read", "write" }
    /\ destination.kind = "Local"
    /\ Len(received) = DEFAULT_BUF_SIZE
    /\ Len(SourceBytes0) > DEFAULT_BUF_SIZE
    /\ files[destination.components] = SubSeq(SourceBytes0, 1, DEFAULT_BUF_SIZE)

\* the invocation has exited
Exited == pc \in { "done", "failed" }

\* C12: when an invocation has exited, on any path, it holds no context and
\* no stream.  The two contexts are made inside the invocation (none is held
\* before do_io_copy begins, so none comes from another invocation); the
\* source context is given only to open_for_read and the destination
\* context only to open_for_write, each at most once; a stream is held only
\* together with both contexts.
C12_ScopedResources ==
    /\ Exited => held = {}
    /\ pc \in { "resolve", "open_source" } => held = {}
    /\ pc \in { "open_sink" } =>
          held = { "source_context", "destination_context", "source_stream" }
    /\ pc \in { "progress", "read", "write", "finish" } =>
          held = { "source_context", "destination_context", "source_stream",
                   "destination_stream" }
    /\ held \cap { "source_stream", "destination_stream" } # {} =>
          { "source_context", "destination_context" } \subseteq held
    /\ \A i \in DOMAIN usedContext :
          /\ usedContext[i][1] = "source_context" <=> usedContext[i][2] = "source"
          /\ usedContext[i][1] = "destination_context" <=> usedContext[i][2] = "sink"
          /\ \A j \in DOMAIN usedContext :
                usedContext[i][1] = usedContext[j][1] => i = j

\* C12 happens: an invocation that held both contexts and both streams
\* failed in the loop and holds nothing
C12_Witness ==
    /\ pc = "failed"
    /\ failedAt = "write"
    /\ Len(usedContext) = 2
    /\ held = {}

\* a step that leaves the transfer loop
LeavesLoop == pc \in { "read", "write" } /\ pc' \notin { "read", "write" }

C14_ReportedOnce ==
    /\ [](/\ ~Resolved => printed = <<>>
          /\ Resolved =>
                /\ printed = << << fmt(source0), fmt(destination) >> >>
                /\ destIsDir[1] => printed[1][2] # fmt(destination0)
                /\ ~destIsDir[1] => printed[1][2] = fmt(destination0))
    /\ [][ /\ printed' # printed =>
                /\ pc = "resolve"
                /\ opened' = <<>>
                /\ held' = {}
           /\ opened' # opened => Len(printed) = 1 /\ printed' = printed
         ]_vars

\* C14 happens: the line shows the destination with the appended basename,
\* and the copy failed afterwards
C14_Witness ==
    /\ pc = "failed"
    /\ failedAt = "open_sink"
    /\ source0 = ParseUrl(<< "/", "a", "/", "b" >>)
    /\ destination0 = LocalPath(<< "d" >>)
    /\ printed = << << << "scheme://host", "/", "a", "/", "b" >>,
                       << "/", "d", "/", "b" >> >> >>

\* the bytes the source stream has delivered so far
Delivered == SubSeq(SourceBytes, 1, src_stream.pos)

\* C15: reads and writes alternate.  A read is issued only when the whole
\* of the chunk before it is in the sink and counted: nothing is pending,
\* the sink holds every byte delivered so far, in the order read, and the
\* progress stands at that number.  The sink takes bytes only from the
\* chunk read last, in order; the progress grows by the chunk's length in
\* the step that ends its write, before the next read.
C15_Alternation ==
    /\ [](pc = "read" =>
             /\ pending = <<>>
             /\ received = Delivered
             /\ progress.pos = src_stream.pos)
    /\ [][ /\ src_stream'.pos # src_stream.pos =>
                /\ pc = "read" /\ pc' = "write"
                /\ received' = received
                /\ pending' = SubSeq(SourceBytes, src_stream.pos + 1, src_stream'.pos)
           /\ received' # received =>
                /\ pc = "write"
                /\ src_stream' = src_stream
                /\ IsPrefix(received', Delivered)
                /\ received' \o pending' = Delivered
           /\ progress'.pos # progress.pos =>
                /\ pc = "write" /\ pc' = "read"
                /\ received' = Delivered
                /\ progress'.pos = progress.pos + len
         ]_vars

\* C15 happens: the first chunk is written and counted, the second is not
\* read yet
C15_Witness ==
    /\ pc = "read"
    /\ src_stream.pos = DEFAULT_BUF_SIZE
    /\ Len(received) = DEFAULT_BUF_SIZE
    /\ progress.pos = DEFAULT_BUF_SIZE
    /\ Remaining # <<>>

\* C16: the transfer uses a bounded buffer.  buf keeps its size; the bytes
\* read from the source and not yet written to the sink are the pending
\* part of one chunk, at most the buffer's size; every chunk handed to
\* write_all has between 1 and the buffer's size bytes.
C16_BoundedBuffer ==
    /\ Len(buf) = DEFAULT_BUF_SIZE
    /\ src_stream.pos - Len(received) = Len(pending)
    /\ Len(pending) <= DEFAULT_BUF_SIZE
    /\ pc = "write" =>
          /\ len \in 1..DEFAULT_BUF_SIZE
          /\ Len(pending) \in 1..len
          /\ pending = SubSeq(buf, len - Len(pending) + 1, len)

\* C16 happens: a full buffer is pending, after a first chunk went through
C16_Witness ==
    /\ pc = "write"
    /\ Len(received) >= 1
    /\ len = DEFAULT_BUF_SIZE
    /\ Len(pending) = DEFAULT_BUF_SIZE

\* both streams are open
BothOpen == { "source_stream", "destination_stream" } \subseteq held

\* C17: the progress representation is chosen exactly once in an
\* invocation, with both streams open and before the first read: a bar of
\* total n if stream_size() answers Some(n) then, a spinner if it answers
\* None; neither the choice nor the total changes afterwards.
C17_ProgressChosenOnce ==
    /\ [](/\ Len(sizes) <= 1
          /\ progress.kind = None <=> sizes = <<>>
          /\ pc \in { "read", "write", "finish", "done" } => Len(sizes) = 1
          /\ (src_stream.pos > 0 \/ ioErrors # <<>>) => Len(sizes) = 1)
    /\ [][ /\ sizes' # sizes =>
                /\ pc = "progress" /\ pc' = "read"
                /\ BothOpen
                /\ src_stream.pos = 0 /\ ioErrors = <<>> /\ received = <<>>
                /\ sizes' = << sizes'[1] >>
                /\ progress'.pos = 0
                /\ IF sizes'[1] = NoneU64
                   THEN progress'.kind = "spinner" /\ progress'.length = NoneU64
                   ELSE progress'.kind = "bar" /\ progress'.length = sizes'[1]
           /\ sizes' = sizes =>
                /\ progress'.kind = progress.kind
                /\ progress'.length = progress.length
         ]_vars

\* C17 happens: a bar of known total was chosen and kept to the end
C17_Witness ==
    /\ pc = "done"
    /\ sizes = << Some(DEFAULT_BUF_SIZE + 1) >>
    /\ progress = [kind |-> "bar", length |-> Some(DEFAULT_BUF_SIZE + 1),
                   pos |-> DEFAULT_BUF_SIZE + 1]

\* C17 happens: a spinner was chosen and kept to the end
C17_WitnessSpinner ==
    /\ pc = "done"
    /\ sizes = << NoneU64 >>
    /\ progress.kind = "spinner"
    /\ progress.pos = DEFAULT_BUF_SIZE + 1

\* C18: if opening the source fails, the sink is never opened.  The
\* invocation has failed with only open_for_read called: open_for_write was
\* not called and got no context, no destination stream is held, the files
\* are the files of before the invocation (no destination file created or
\* truncated) and the remote sink has received nothing (no PUT body).
C18_SourceFailureLeavesSink ==
    failedAt = "open_source" =>
        /\ pc = "failed"
        /\ OpenedSides = << "source" >>
        /\ usedContext = << << "source_context", "source" >> >>
        /\ "destination_stream" \notin held
        /\ files = files0
        /\ received = <<>>
        /\ written = 0

\* C18 happens: the source did not open and the existing destination file
\* keeps its content
C18_Witness ==
    /\ pc = "failed"
    /\ failedAt = "open_source"
    /\ destination.kind = "Local"
    /\ destination.components \in DOMAIN files0
    /\ ~SameFile
    /\ files[destination.components] = OldContent

\* C18 happens: the source did not open and the destination file was not
\* created
C18_WitnessNotCreated ==
    /\ pc = "failed"
    /\ failedAt = "open_source"
    /\ destination.kind = "Local"
    /\ destination.components \notin DOMAIN files

\* C19: a copy only reads from its source.  After the invocation,
\* successful or failed, a local source file holds the bytes it held before
\* the invocation, also when the destination resolves to the source's own
\* path.  (A remote source's body is never assigned.)
C19_SourceUntouched ==
    (/\ Exited
     /\ source0.kind = "Local"
     /\ source0.components \in DOMAIN files0) =>
        /\ source0.components \in DOMAIN files
        /\ files[source0.components] = files0[source0.components]

====
